---- MODULE Spec2Model ----
(***************************************************************************)
(* ProSA-Ollama: the Ollama processor (src/src/proc.rs) and its adaptor    *)
(* trait (src/src/adaptor.rs).  The model follows OllamaProc::internal_run *)
(* from its first statement to its return: client construction, model      *)
(* provisioning, adaptor construction, registration and the dispatch loop. *)
(* Every `.await` on the backend or on the bus is a step of its own; the   *)
(* synchronous code between two awaits belongs to the step that runs it.   *)
(***************************************************************************)
EXTENDS Integers, Sequences, FiniteSets, TLC

(***************************************************************************)
(* Bounds of the model.                                                    *)
(***************************************************************************)
\* Envelopes the bus delivers to the processor in one run.
MaxEnvelopes == 3
\* Length of the required-model list of the settings.
MaxModels == 2
\* Envelopes the bus delivers in the runs that vary the settings.
StartupEnvelopes == 1

\* Envelopes the bus delivers in the telemetry specification.
TelemetryEnvelopes == 1

None == "None"

\* Model names known to the settings and to the backend.
ModelNames == {"llama3", "mistral"}

\* Message payloads (the type M of the adaptor trait).
Payloads == {"m1", "m2"}

\* Routing tables a Service envelope may carry.
Tables == {"t1", "t2"}

(***************************************************************************)
(* Strings of the endpoint URL are sequences of byte values, so that the   *)
(* header derivation is computed and not assumed.                          *)
(***************************************************************************)
StrUser == <<117>>                  \* "u"
StrSecret == <<112, 119>>           \* "pw"
StrCtl == <<112, 10>>               \* "p\n": not a legal header value
StrBearer == <<66, 101, 97, 114, 101, 114, 32>>   \* "Bearer "
StrBasic == <<66, 97, 115, 105, 99, 32>>          \* "Basic "
ChColon == 58
ChPad == 61

Usernames == {<<>>, StrUser, StrUser \o <<115>>, StrUser \o <<115, 114>>}
\* Option<T>: the empty sequence is None, a one-element sequence is Some.
NoneOpt == <<>>
Some(v) == <<v>>
IsSome(o) == Len(o) = 1
Unwrap(o) == o[1]

Passwords == {NoneOpt, Some(StrSecret), Some(StrCtl)}

\* base64 STANDARD alphabet: the character of a 6-bit value.
B64Char(v) ==
    IF v < 26 THEN 65 + v
    ELSE IF v < 52 THEN 97 + (v - 26)
    ELSE IF v < 62 THEN 48 + (v - 52)
    ELSE IF v = 62 THEN 43 ELSE 47

RECURSIVE Base64Encode(_)
Base64Encode(bytes) ==
    IF Len(bytes) = 0 THEN <<>>
    ELSE IF Len(bytes) = 1 THEN
        << B64Char(bytes[1] \div 4), B64Char((bytes[1] % 4) * 16), ChPad, ChPad >>
    ELSE IF Len(bytes) = 2 THEN
        << B64Char(bytes[1] \div 4),
           B64Char((bytes[1] % 4) * 16 + (bytes[2] \div 16)),
           B64Char((bytes[2] % 16) * 4), ChPad >>
    ELSE
        << B64Char(bytes[1] \div 4),
           B64Char((bytes[1] % 4) * 16 + (bytes[2] \div 16)),
           B64Char((bytes[2] % 16) * 4 + (bytes[3] \div 64)),
           B64Char(bytes[3] % 64) >>
        \o Base64Encode(SubSeq(bytes, 4, Len(bytes)))

\* HeaderValue::from_str succeeds on visible ASCII, space and tab only.
HeaderValueOk(s) ==
    \A k \in 1..Len(s) : (s[k] >= 32 /\ s[k] # 127) \/ s[k] = 9

(***************************************************************************)
(* Errors.                                                                 *)
(***************************************************************************)
\* enum OllamaError
OllamaErrorKinds == {"Ollama", "InvalidHeaderValue", "Other"}
OllamaErr(kind, detail) == [kind |-> kind, detail |-> detail]

\* Errors an adaptor may return: any variant of OllamaError.
AdaptorErrors ==
    { OllamaErr("Ollama", "io"), OllamaErr("InvalidHeaderValue", "hdr"),
      OllamaErr("Other", "adaptor") }

\* The error of a failed ollama_rs call, wrapped by OllamaError::Ollama.
BackendErr == OllamaErr("Ollama", "connect")

\* Faulty variant: the arms of the Ollama and InvalidHeaderValue variants exchanged.
ServiceErrorFromSwapped(e) ==
    IF e.kind = "Ollama" THEN
        [kind |-> "ProtocolError", detail |-> e.detail]
    ELSE [kind |-> "UnableToReachService", detail |-> e.detail]

\* impl From<OllamaError> for ServiceError
ServiceErrorFrom(e) ==
    IF e.kind = "Ollama" THEN
        [kind |-> "UnableToReachService", detail |-> e.detail]
    ELSE IF e.kind = "InvalidHeaderValue" THEN
        [kind |-> "ProtocolError", detail |-> e.detail]
    ELSE
        [kind |-> "UnableToReachService", detail |-> e.detail]

(***************************************************************************)
(* Requests and responses.                                                 *)
(***************************************************************************)
\* enum OllamaRequest
OllamaRequest(op, arg) == [op |-> op, arg |-> arg]

\* enum OllamaResponse
OllamaResponse(variant, value) == [variant |-> variant, value |-> value]

Ok(v) == [ok |-> TRUE, val |-> v]
Err(e) == [ok |-> FALSE, val |-> e]

\* OllamaAdaptor::process_request: the adaptor is supplied by the application,
\* so every operation and every error is a possible outcome.
ProcessRequestResults(service_name, data) ==
    { Ok(OllamaRequest("ListLocalModels", None)) }
    \cup { Ok(OllamaRequest("ModelInfo", n)) : n \in ModelNames }
    \cup { Ok(OllamaRequest("GenerateRequest", data)),
           Ok(OllamaRequest("GenerateEmbeddingsRequest", data)) }
    \cup { Err(e) : e \in AdaptorErrors }

\* OllamaAdaptor::process_ollama_response: a message built from the response,
\* or an error.
ProcessResponseResults(response) ==
    { Ok([from |-> response]) } \cup { Err(e) : e \in AdaptorErrors }

\* GenerationResponse: the model name and the six optional statistics.
GenerationResponse(model, pec, ec, td, ld, ped, ed) ==
    [model |-> model, prompt_eval_count |-> pec, eval_count |-> ec,
     total_duration |-> td, load_duration |-> ld,
     prompt_eval_duration |-> ped, eval_duration |-> ed]

\* Responses the backend may give to a generate call.
GenerationResponses ==
    { GenerationResponse("llama3", NoneOpt, NoneOpt, NoneOpt, NoneOpt, NoneOpt,
                         NoneOpt),
      GenerationResponse("llama3", Some(12), Some(34), Some(5999999),
                         Some(1000000), Some(999999), Some(3000001)),
      GenerationResponse("mistral", Some(12), NoneOpt, Some(5999999), NoneOpt,
                         NoneOpt, Some(3000001)) }

Opt(v) == { NoneOpt, Some(v) }

\* Every combination of present and absent statistics, for each model; the
\* durations are in nanoseconds and most are not whole milliseconds.
AllGenerationResponses ==
    { GenerationResponse(m, pec, ec, td, ld, ped, ed) :
        m \in ModelNames, pec \in Opt(12), ec \in Opt(34), td \in Opt(5999999),
        ld \in Opt(1000000), ped \in Opt(999999), ed \in Opt(3000001) }

\* Numbers of embedding vectors the backend may return.
EmbeddingCounts == {0, 2}

\* Faulty variant: the ModelInfo arm calls the listing instead of show_model_info.
FacadeOpForModelInfoLists(request) ==
    IF request.op \in {"ListLocalModels", "ModelInfo"} THEN "list_local_models"
    ELSE IF request.op = "GenerateRequest" THEN "generate"
    ELSE "generate_embeddings"

\* The Facade method the dispatch loop calls for a request variant.
FacadeOpFor(request) ==
    IF request.op = "ListLocalModels" THEN "list_local_models"
    ELSE IF request.op = "ModelInfo" THEN "show_model_info"
    ELSE IF request.op = "GenerateRequest" THEN "generate"
    ELSE "generate_embeddings"

\* Faulty variant: the generate arm wraps its response as a chat response.
ResponseVariantForChat(call) ==
    IF call = "list_local_models" THEN "LocalModels"
    ELSE IF call = "show_model_info" THEN "ModelInfo"
    ELSE IF call = "generate" THEN "ChatMessageResponse"
    ELSE "GenerateEmbeddingsResponse"

\* The variant of OllamaResponse an arm wraps the result of its call in:
\* OllamaResponse::LocalModels(..), OllamaResponse::ModelInfo(..) and, for the
\* two generate calls, response.into().
ResponseVariantFor(call) ==
    IF call = "list_local_models" THEN "LocalModels"
    ELSE IF call = "show_model_info" THEN "ModelInfo"
    ELSE IF call = "generate" THEN "GenerateResponse"
    ELSE "GenerateEmbeddingsResponse"

\* The values a Facade call may return.
FacadeValues(call, arg, models, generated) ==
    IF call = "list_local_models" THEN { models }
    ELSE IF call = "show_model_info" THEN { arg }
    ELSE IF call = "generate" THEN generated
    ELSE { [embeddings |-> n, input |-> arg] : n \in EmbeddingCounts }

\* What a Facade call may return: a response of the call's own kind, or an error.
FacadeResults(call, arg, models, generated) ==
    { Ok(OllamaResponse(ResponseVariantFor(call), v)) :
        v \in FacadeValues(call, arg, models, generated) }
    \cup { Err(BackendErr) }

NanosPerMilli == 1000000

Metric(instrument, value, type, model) ==
    [instrument |-> instrument, value |-> value, type |-> type, model |-> model]

\* Faulty variant: the duration is recorded in nanoseconds.
OptMetricUndivided(field, instrument, divisor, type, model) ==
    IF IsSome(field)
    THEN << Metric(instrument, Unwrap(field), type, model) >>
    ELSE <<>>

\* `if let Some(x) = field { record(x) }`
OptMetric(field, instrument, divisor, type, model) ==
    IF IsSome(field)
    THEN << Metric(instrument, Unwrap(field) \div divisor, type, model) >>
    ELSE <<>>

\* The records made after a successful Facade call, in the order of the code.
Telemetry(response) ==
    IF response.variant = "GenerateResponse" THEN
        LET r == response.value IN
        OptMetric(r.prompt_eval_count, "prompt_token_count", 1, "gen", r.model)
        \o OptMetric(r.eval_count, "gen_token_count", 1, "gen", r.model)
        \o OptMetric(r.total_duration, "token_histogram", NanosPerMilli,
                     "total", r.model)
        \o OptMetric(r.load_duration, "token_histogram", NanosPerMilli,
                     "load", r.model)
        \o OptMetric(r.prompt_eval_duration, "token_histogram", NanosPerMilli,
                     "prompt", r.model)
        \o OptMetric(r.eval_duration, "token_histogram", NanosPerMilli,
                     "eval", r.model)
    ELSE IF response.variant = "GenerateEmbeddingsResponse" THEN
        << Metric("gen_token_count", response.value.embeddings, "embed", None) >>
    ELSE <<>>

\* Replies: RequestMsg::return_to_sender and return_error_to_sender.
SuccessReply(resp) == [kind |-> "response", body |-> resp]
ErrorReply(data, err) == [kind |-> "error", body |-> [data |-> data, err |-> err]]

(***************************************************************************)
(* Settings and the client built from them.                                *)
(***************************************************************************)
Url(username, password) == [username |-> username, password |-> password]

\* struct OllamaProcSettings
OllamaProcSettings(url, models, allow_insecure, services) ==
    [url |-> url, models |-> models, allow_insecure |-> allow_insecure,
     services |-> services]

\* fn default_services
DefaultServices == <<"ollama">>

RECURSIVE SeqsUpTo(_, _)
SeqsUpTo(S, n) ==
    IF n = 0 THEN { <<>> }
    ELSE LET shorter == SeqsUpTo(S, n - 1) IN
         shorter \cup { Append(q, x) : q \in shorter, x \in S }

\* Faulty variant: the basic form carries username:password as it is.
AuthorizationValueUnencoded(url) ==
    IF url.username = <<>>
    THEN StrBearer \o Unwrap(url.password)
    ELSE StrBasic \o url.username \o <<ChColon>> \o Unwrap(url.password)

\* The value of the Authorization header for the credentials of the URL.
AuthorizationValue(url) ==
    IF url.username = <<>>
    THEN StrBearer \o Unwrap(url.password)
    ELSE StrBasic
         \o Base64Encode(url.username \o <<ChColon>> \o Unwrap(url.password))

\* OllamaProcSettings::get_ollama: the client, or the header error.
GetOllamaResult(url) ==
    IF IsSome(url.password) THEN
        IF HeaderValueOk(AuthorizationValue(url))
        THEN Ok([headers |-> Some(AuthorizationValue(url))])
        ELSE Err(OllamaErr("InvalidHeaderValue", "hdr"))
    ELSE Ok([headers |-> NoneOpt])

(***************************************************************************)
(* Envelopes of the internal queue: enum InternalMsg.                      *)
(***************************************************************************)
Envelope(kind, data, service) == [kind |-> kind, data |-> data, service |-> service]

Envelopes ==
    { Envelope("Request", d, s) :
        d \in Payloads \cup {None}, s \in {DefaultServices[1]} }
    \cup { Envelope(k, None, None) :
             k \in {"Response", "Error", "Command", "Config", "Shutdown"} }
    \cup { Envelope("Service", t, None) : t \in Tables }

(***************************************************************************)
(* State.                                                                  *)
(***************************************************************************)
VARIABLES
    pc,            \* where internal_run is
    ret,           \* what internal_run returned, once it has
    settings,      \* self.settings
    inventory,     \* the models the backend holds
    generations,   \* the responses the backend gives to generate calls
    ollama,        \* the client of get_ollama
    local_models,  \* the listing taken at startup
    next_model,    \* position of the provisioning loop in settings.models
    listed,        \* list calls made at startup: the outcome of each
    pulled,        \* pull calls made at startup, in order, with their outcome
    adaptor,       \* the adaptor: constructions and terminations
    proc,          \* registration with the bus
    service,       \* self.service, the routing table
    queue,         \* self.internal_rx_queue
    undelivered,   \* envelopes the bus has yet to deliver
    closed,        \* every sender of the queue is gone
    msg,           \* the envelope the loop took last
    request,       \* the Facade call in flight
    reply,         \* the reply being sent
    log            \* what was done for the envelope taken last

vars == << pc, ret, settings, inventory, generations, ollama, local_models, next_model,
           listed, pulled, adaptor, proc, service, queue, undelivered, closed,
           msg, request, reply, log >>

startup_vars == << settings, inventory, generations, ollama, local_models, next_model,
                   listed, pulled >>
loop_vars == << service, msg, request, reply, log >>
bus_vars == << queue, undelivered, closed >>

EmptyLog ==
    [process_request |-> <<>>, facade |-> <<>>, facade_ok |-> <<>>,
     facade_result |-> <<>>, fault |-> NoneOpt,
     telemetry |-> <<>>, process_ollama_response |-> <<>>, outbound |-> <<>>,
     replies |-> <<>>, events |-> <<>>]

\* The state after construction, for a set of settings and backend inventories.
InitWith(Settings, Inventories, Generations, envelopes) ==
    /\ pc = "get_ollama"
    /\ ret = None
    /\ settings \in Settings
    /\ inventory \in Inventories
    /\ generations = Generations
    /\ ollama = NoneOpt
    /\ local_models = {}
    /\ next_model = 1
    /\ listed = <<>>
    /\ pulled = <<>>
    /\ adaptor = [constructed |-> 0, failed |-> 0, terminated |-> 0]
    /\ proc = [added |-> FALSE, services |-> <<>>, remove_calls |-> 0,
               removed |-> FALSE]
    /\ service = "t0"
    /\ queue = <<>>
    /\ undelivered = envelopes
    /\ closed = FALSE
    /\ msg = NoneOpt
    /\ request = NoneOpt
    /\ reply = NoneOpt
    /\ log = EmptyLog

\* The settings of the spec's scenario: one required model, absent at first.
ScenarioSettings ==
    { OllamaProcSettings(Url(<<>>, NoneOpt), <<"llama3">>, FALSE, DefaultServices) }

\* Every required-model list and pull flag, with an endpoint without
\* credentials and one whose credentials give no legal header.
StartupSettings ==
    { OllamaProcSettings(url, ms, b, DefaultServices) :
        url \in { Url(<<>>, NoneOpt), Url(<<>>, Some(StrCtl)) },
        ms \in SeqsUpTo(ModelNames, MaxModels), b \in BOOLEAN }

Init == InitWith(ScenarioSettings, { {"mistral"} }, GenerationResponses, MaxEnvelopes)

InitStartup ==
    InitWith(StartupSettings, SUBSET ModelNames, GenerationResponses,
             StartupEnvelopes)

\* The scenario with a backend that may answer a generate call with any
\* combination of statistics.
InitTelemetry ==
    InitWith(ScenarioSettings, { {"mistral"} }, AllGenerationResponses,
             TelemetryEnvelopes)

\* Every combination of username and password in the endpoint URL.
AuthSettings ==
    { OllamaProcSettings(Url(u, p), <<"llama3">>, FALSE, DefaultServices) :
        u \in Usernames, p \in Passwords }

InitAuth ==
    InitWith(AuthSettings, { {"mistral"} }, GenerationResponses, StartupEnvelopes)

Return(value) ==
    /\ pc' = "returned"
    /\ ret' = value

(***************************************************************************)
(* Startup.                                                                *)
(***************************************************************************)
\* let ollama = self.settings.get_ollama()?;
GetOllama ==
    /\ pc = "get_ollama"
    /\ LET r == GetOllamaResult(settings.url) IN
       IF r.ok
       THEN /\ ollama' = Some(r.val)
            /\ pc' = "list_local_models"
            /\ ret' = ret
       ELSE /\ ollama' = ollama
            /\ Return(r.val.kind)
    /\ UNCHANGED << settings, generations, inventory, local_models, next_model, listed,
                    pulled, adaptor, proc >>
    /\ UNCHANGED << loop_vars, bus_vars >>

\* ollama.list_local_models().await.map_err(OllamaError::Ollama)?
ListLocalModels ==
    /\ pc = "list_local_models"
    /\ \E ok \in BOOLEAN :
         /\ listed' = Append(listed, ok)
         /\ IF ok
            THEN /\ local_models' = inventory
                 /\ pc' = "provision"
                 /\ ret' = ret
            ELSE /\ local_models' = local_models
                 /\ Return(BackendErr.kind)
    /\ UNCHANGED << settings, generations, inventory, ollama, next_model, pulled, adaptor, proc >>
    /\ UNCHANGED << loop_vars, bus_vars >>

\* Faulty variant: the comparison of names never matches.
IsLocalNever(model, locals) == FALSE

\* `for local_model in &local_models { if &local_model.name == model ... }`
IsLocal(model, locals) == model \in locals

\* The first position at or after `from` whose model the listing lacks;
\* Len(models) + 1 when there is none (`continue 'model` skips the others).
RECURSIVE NextAbsent(_, _, _)
NextAbsent(models, locals, from) ==
    IF from > Len(models) THEN from
    ELSE IF IsLocal(models[from], locals) THEN NextAbsent(models, locals, from + 1)
    ELSE from

\* Faulty variant: a failed pull is logged and the loop goes on to the next model.
PullModelLenient ==
    /\ pc = "provision"
    /\ LET at == NextAbsent(settings.models, local_models, next_model) IN
       /\ at <= Len(settings.models)
       /\ \E ok \in BOOLEAN :
            /\ pulled' = Append(pulled, [model |-> settings.models[at],
                                         allow_insecure |-> settings.allow_insecure,
                                         ok |-> ok])
            /\ inventory' = IF ok THEN inventory \cup { settings.models[at] }
                            ELSE inventory
            /\ next_model' = at + 1
            /\ UNCHANGED << pc, ret >>
    /\ UNCHANGED << settings, generations, ollama, local_models, listed, adaptor, proc >>
    /\ UNCHANGED << loop_vars, bus_vars >>

\* ollama.pull_model(model, allow_insecure).await.map_err(OllamaError::Ollama)?
PullModel ==
    /\ pc = "provision"
    /\ LET at == NextAbsent(settings.models, local_models, next_model) IN
       /\ at <= Len(settings.models)
       /\ \E ok \in BOOLEAN :
            /\ pulled' = Append(pulled, [model |-> settings.models[at],
                                         allow_insecure |-> settings.allow_insecure,
                                         ok |-> ok])
            /\ IF ok
               THEN /\ inventory' = inventory \cup { settings.models[at] }
                    /\ next_model' = at + 1
                    /\ UNCHANGED << pc, ret >>
               ELSE /\ UNCHANGED << inventory, next_model >>
                    /\ Return(BackendErr.kind)
    /\ UNCHANGED << settings, generations, ollama, local_models, listed, adaptor, proc >>
    /\ UNCHANGED << loop_vars, bus_vars >>

\* Faulty variant: the adaptor is built as soon as the listing is there, before the pulls.
NewAdaptorUnprovisioned ==
    /\ pc = "provision"
    /\ \E r \in { Ok(None) } \cup { Err(e) : e \in AdaptorErrors } :
         IF r.ok
         THEN /\ adaptor' = [adaptor EXCEPT !.constructed = @ + 1]
              /\ pc' = "add_proc"
              /\ ret' = ret
         ELSE /\ adaptor' = [adaptor EXCEPT !.failed = @ + 1]
              /\ Return(r.val.kind)
    /\ UNCHANGED << startup_vars, proc, loop_vars, bus_vars >>

\* Faulty variant: the error of A::new is not propagated.
NewAdaptorIgnoringFailure ==
    /\ pc = "provision"
    /\ NextAbsent(settings.models, local_models, next_model) > Len(settings.models)
    /\ \E r \in { Ok(None) } \cup { Err(e) : e \in AdaptorErrors } :
         /\ adaptor' = IF r.ok THEN [adaptor EXCEPT !.constructed = @ + 1]
                       ELSE [adaptor EXCEPT !.failed = @ + 1]
         /\ pc' = "add_proc"
         /\ ret' = ret
    /\ UNCHANGED << startup_vars, proc, loop_vars, bus_vars >>

\* let mut adaptor = A::new(self)?;
NewAdaptor ==
    /\ pc = "provision"
    /\ NextAbsent(settings.models, local_models, next_model) > Len(settings.models)
    /\ \E r \in { Ok(None) } \cup { Err(e) : e \in AdaptorErrors } :
         IF r.ok
         THEN /\ adaptor' = [adaptor EXCEPT !.constructed = @ + 1]
              /\ pc' = "add_proc"
              /\ ret' = ret
         ELSE /\ adaptor' = [adaptor EXCEPT !.failed = @ + 1]
              /\ Return(r.val.kind)
    /\ UNCHANGED << startup_vars, proc, loop_vars, bus_vars >>

\* self.proc.add_proc().await?;
AddProc ==
    /\ pc = "add_proc"
    /\ \E ok \in BOOLEAN :
         IF ok
         THEN /\ proc' = [proc EXCEPT !.added = TRUE]
              /\ pc' = "add_service_proc"
              /\ ret' = ret
         ELSE /\ proc' = proc
              /\ Return("Bus")
    /\ UNCHANGED << startup_vars, adaptor, loop_vars, bus_vars >>

\* self.proc.add_service_proc(self.settings.services.clone()).await?;
AddServiceProc ==
    /\ pc = "add_service_proc"
    /\ \E ok \in BOOLEAN :
         IF ok
         THEN /\ proc' = [proc EXCEPT !.services = settings.services]
              /\ pc' = "recv"
              /\ ret' = ret
         ELSE /\ proc' = proc
              /\ Return("Bus")
    /\ UNCHANGED << startup_vars, adaptor, loop_vars, bus_vars >>

(***************************************************************************)
(* The bus: the senders of the internal queue.                             *)
(***************************************************************************)
Running == pc \notin {"returned", "panicked"}

BusSend ==
    /\ Running
    /\ ~closed
    /\ undelivered > 0
    /\ \E e \in Envelopes : queue' = Append(queue, e)
    /\ undelivered' = undelivered - 1
    /\ UNCHANGED << pc, ret, startup_vars, adaptor, proc, loop_vars, closed >>

BusClose ==
    /\ Running
    /\ ~closed
    /\ closed' = TRUE
    /\ UNCHANGED << pc, ret, startup_vars, adaptor, proc, loop_vars, queue,
                    undelivered >>

(***************************************************************************)
(* The dispatch loop.                                                      *)
(***************************************************************************)
\* Faulty variant: the queue is also polled while a Facade call is awaited.
ReceivingDuringCall(kinds) ==
    /\ pc \in {"recv", "facade"}
    /\ queue # <<>>
    /\ Head(queue).kind \in kinds

\* `self.internal_rx_queue.recv().await` yields an envelope of one of `kinds`.
Receiving(kinds) ==
    /\ pc = "recv"
    /\ queue # <<>>
    /\ Head(queue).kind \in kinds

\* What the Request arm does with the result of adaptor.process_request, up to
\* its first await: the call it starts, or the error reply it starts to send.
OnRequest(translated) ==
    IF translated.ok
    THEN [pc |-> "facade", request |-> Some(translated.val), reply |-> NoneOpt,
          log |-> [EmptyLog EXCEPT !.process_request = << translated >>,
                                   !.facade = << FacadeOpFor(translated.val) >>,
                                   !.events = << "process_request", "call" >>]]
    ELSE [pc |-> "send", request |-> NoneOpt,
          reply |-> Some(ErrorReply(NoneOpt, ServiceErrorFrom(translated.val))),
          log |-> [EmptyLog EXCEPT !.process_request = << translated >>,
                                   !.fault = Some(translated.val),
                                   !.events = << "process_request" >>]]

\* A Request without data: `if let Some(data) = msg.take_data()` has no else.
OnRequestWithoutData ==
    [pc |-> "recv", request |-> NoneOpt, reply |-> NoneOpt, log |-> EmptyLog]

\* InternalMsg::Request(mut msg)
RecvRequest ==
    /\ Receiving({"Request"})
    /\ msg' = Some(Head(queue))
    /\ queue' = Tail(queue)
    /\ \E next \in
           IF Head(queue).data = None
           THEN { OnRequestWithoutData }
           ELSE { OnRequest(t) :
                    t \in ProcessRequestResults(Head(queue).service,
                                                Head(queue).data) } :
         /\ pc' = next.pc
         /\ request' = next.request
         /\ reply' = next.reply
         /\ log' = next.log
    /\ UNCHANGED << ret, startup_vars, adaptor, proc, service, undelivered, closed >>

\* Faulty variant: the statistics are recorded after the outbound translation,
\* and only when it succeeded.
OnFacadeOkRecordingLast(response, translated) ==
    [reply |-> IF translated.ok
               THEN Some(SuccessReply(translated.val))
               ELSE Some(ErrorReply(NoneOpt, ServiceErrorFrom(translated.val))),
     telemetry |-> IF translated.ok THEN Telemetry(response) ELSE <<>>,
     process_ollama_response |-> << response >>,
     outbound |-> << translated >>,
     fault |-> IF translated.ok THEN NoneOpt ELSE Some(translated.val),
     events |-> << "process_ollama_response" >>
                \o IF translated.ok
                   THEN [i \in 1..Len(Telemetry(response)) |-> "record"]
                   ELSE <<>>]

\* Faulty variant: the response is handed to the adaptor twice.
OnFacadeOkTranslatingTwice(response, translated) ==
    [reply |-> IF translated.ok
               THEN Some(SuccessReply(translated.val))
               ELSE Some(ErrorReply(NoneOpt, ServiceErrorFrom(translated.val))),
     telemetry |-> Telemetry(response),
     process_ollama_response |-> << response, response >>,
     outbound |-> << translated, translated >>,
     fault |-> IF translated.ok THEN NoneOpt ELSE Some(translated.val),
     events |-> [i \in 1..Len(Telemetry(response)) |-> "record"]
                \o << "process_ollama_response", "process_ollama_response" >>]

\* What the arm does when the Facade call returns, up to the await of the send:
\* telemetry and adaptor.process_ollama_response on success, the error reply
\* on failure.
OnFacadeOk(response, translated) ==
    [reply |-> IF translated.ok
               THEN Some(SuccessReply(translated.val))
               ELSE Some(ErrorReply(NoneOpt, ServiceErrorFrom(translated.val))),
     telemetry |-> Telemetry(response),
     process_ollama_response |-> << response >>,
     outbound |-> << translated >>,
     fault |-> IF translated.ok THEN NoneOpt ELSE Some(translated.val),
     events |-> [i \in 1..Len(Telemetry(response)) |-> "record"]
                \o << "process_ollama_response" >>]

OnFacadeErr(e) ==
    [reply |-> Some(ErrorReply(NoneOpt, ServiceErrorFrom(e))),
     telemetry |-> <<>>,
     process_ollama_response |-> <<>>,
     outbound |-> <<>>,
     fault |-> Some(e),
     events |-> <<>>]

OnFacadeResult(result) ==
    IF result.ok
    THEN { OnFacadeOk(result.val, t) : t \in ProcessResponseResults(result.val) }
    ELSE { OnFacadeErr(result.val) }

\* match ollama.<call>(...).await { Ok(..) => .., Err(e) => .. }
FacadeReturn ==
    /\ pc = "facade"
    /\ \E result \in FacadeResults(log.facade[Len(log.facade)],
                                   Unwrap(request).arg, inventory, generations) :
         \E next \in OnFacadeResult(result) :
           /\ reply' = next.reply
           /\ log' = [log EXCEPT !.facade_ok = Append(@, result.ok),
                                 !.facade_result = Append(@, result),
                                 !.telemetry = @ \o next.telemetry,
                                 !.process_ollama_response =
                                     @ \o next.process_ollama_response,
                                 !.outbound = @ \o next.outbound,
                                 !.fault = next.fault,
                                 !.events = @ \o << "return" >> \o next.events]
    /\ request' = NoneOpt
    /\ pc' = "send"
    /\ UNCHANGED << ret, startup_vars, adaptor, proc, service, msg, bus_vars >>

\* msg.return_to_sender(resp).await? and msg.return_error_to_sender(..).await?
AfterSend(delivered) ==
    IF delivered THEN [pc |-> "recv", ret |-> None]
    ELSE [pc |-> "returned", ret |-> "Bus"]

SendReply ==
    /\ pc = "send"
    /\ \E delivered \in BOOLEAN :
         /\ log' = [log EXCEPT !.replies =
                        Append(@, [reply |-> Unwrap(reply), delivered |-> delivered]),
                                 !.events = Append(@, "send")]
         /\ pc' = AfterSend(delivered).pc
         /\ ret' = AfterSend(delivered).ret
    /\ reply' = NoneOpt
    /\ UNCHANGED << startup_vars, adaptor, proc, service, msg, request, bus_vars >>

\* InternalMsg::Response(msg) => panic!, InternalMsg::Error(err) => panic!
RecvResponseOrError ==
    /\ Receiving({"Response", "Error"})
    /\ msg' = Some(Head(queue))
    /\ queue' = Tail(queue)
    /\ log' = EmptyLog
    /\ pc' = "panicked"
    /\ UNCHANGED << ret, startup_vars, adaptor, proc, service, request, reply,
                    undelivered, closed >>

\* Faulty variant: Command and Config are dropped and the loop goes on.
RecvCommandOrConfigIgnored ==
    /\ Receiving({"Command", "Config"})
    /\ msg' = Some(Head(queue))
    /\ queue' = Tail(queue)
    /\ log' = EmptyLog
    /\ UNCHANGED << pc, ret, startup_vars, adaptor, proc, service, request, reply,
                    undelivered, closed >>

\* InternalMsg::Command(_) => todo!(), InternalMsg::Config => todo!()
RecvCommandOrConfig ==
    /\ Receiving({"Command", "Config"})
    /\ msg' = Some(Head(queue))
    /\ queue' = Tail(queue)
    /\ log' = EmptyLog
    /\ pc' = "panicked"
    /\ UNCHANGED << ret, startup_vars, adaptor, proc, service, request, reply,
                    undelivered, closed >>

\* Faulty variant: the table of the envelope is dropped.
RecvServiceIgnored ==
    /\ Receiving({"Service"})
    /\ msg' = Some(Head(queue))
    /\ queue' = Tail(queue)
    /\ log' = EmptyLog
    /\ UNCHANGED << pc, ret, startup_vars, adaptor, proc, service, request, reply,
                    undelivered, closed >>

\* InternalMsg::Service(table) => self.service = table
RecvService ==
    /\ Receiving({"Service"})
    /\ msg' = Some(Head(queue))
    /\ queue' = Tail(queue)
    /\ log' = EmptyLog
    /\ service' = Head(queue).data
    /\ UNCHANGED << pc, ret, startup_vars, adaptor, proc, request, reply,
                    undelivered, closed >>

\* Faulty variant: the Shutdown arm deregisters without adaptor.terminate().
RecvShutdownWithoutTerminate ==
    /\ Receiving({"Shutdown"})
    /\ msg' = Some(Head(queue))
    /\ queue' = Tail(queue)
    /\ log' = EmptyLog
    /\ pc' = "remove_proc"
    /\ UNCHANGED << ret, startup_vars, adaptor, proc, service, request, reply,
                    undelivered, closed >>

\* InternalMsg::Shutdown => { adaptor.terminate(); self.proc.remove_proc(None)..
\* up to the await of remove_proc.
RecvShutdown ==
    /\ Receiving({"Shutdown"})
    /\ msg' = Some(Head(queue))
    /\ queue' = Tail(queue)
    /\ log' = EmptyLog
    /\ adaptor' = [adaptor EXCEPT !.terminated = @ + 1]
    /\ pc' = "remove_proc"
    /\ UNCHANGED << ret, startup_vars, proc, service, request, reply,
                    undelivered, closed >>

\* self.proc.remove_proc(None).await?; return Ok(());
RemoveProc ==
    /\ pc = "remove_proc"
    /\ \E ok \in BOOLEAN :
         /\ proc' = [proc EXCEPT !.remove_calls = @ + 1,
                                 !.removed = ok]
         /\ Return(IF ok THEN "Ok" ELSE "Bus")
    /\ UNCHANGED << startup_vars, adaptor, loop_vars, bus_vars >>

\* Faulty variant: the loop ends when recv yields no envelope.
RecvNoneReturns ==
    /\ pc = "recv"
    /\ queue = <<>>
    /\ closed
    /\ Return("Ok")
    /\ UNCHANGED << startup_vars, adaptor, proc, loop_vars, bus_vars >>

\* `if let Some(msg) = self.internal_rx_queue.recv().await` on a closed, empty
\* queue: recv yields None and the loop goes round.
RecvNone ==
    /\ pc = "recv"
    /\ queue = <<>>
    /\ closed
    /\ UNCHANGED vars

Next ==
    \/ GetOllama
    \/ ListLocalModels
    \/ PullModel
    \/ NewAdaptor
    \/ AddProc
    \/ AddServiceProc
    \/ BusSend
    \/ BusClose
    \/ RecvRequest
    \/ FacadeReturn
    \/ SendReply
    \/ RecvResponseOrError
    \/ RecvCommandOrConfig
    \/ RecvService
    \/ RecvShutdown
    \/ RemoveProc
    \/ RecvNone

Spec == Init /\ [][Next]_vars

SpecStartup == InitStartup /\ [][Next]_vars

SpecTelemetry == InitTelemetry /\ [][Next]_vars

SpecAuth == InitAuth /\ [][Next]_vars

(***************************************************************************)
(* Properties.                                                             *)
(***************************************************************************)
\* The envelope taken last is a Request.
TookRequest == IsSome(msg) /\ Unwrap(msg).kind = "Request"

\* The result of adaptor.process_request for the envelope taken last.
Translated == log.process_request[1]
TranslationOk == log.process_request # <<>> /\ Translated.ok
TranslationFailed == log.process_request # <<>> /\ ~Translated.ok

IsErrorReply(r) == r.kind = "error"
IsSuccessReply(r) == r.kind = "response"

\* C1: for every Request envelope the loop consumes, with or without a payload,
\* exactly one reply (success or error) is sent once its handling is over.
C1_ExactlyOneReply ==
    (TookRequest /\ pc \in {"recv", "returned"}) => Len(log.replies) = 1

\* C2: no fault that arises while a Request is handled, the failure of the bus
\* send of its reply included, makes internal_run return.
C2_NoFaultReturns ==
    TookRequest => pc # "returned"

C3_ExpectedCall(op) ==
    CASE op = "ListLocalModels" -> "list_local_models"
      [] op = "ModelInfo" -> "show_model_info"
      [] op = "GenerateRequest" -> "generate"
      [] op = "GenerateEmbeddingsRequest" -> "generate_embeddings"

\* C3: a Request whose inbound translation succeeds leads to exactly one Facade
\* call, the one of its operation variant, and to no second call after a
\* failure; a Request that is not translated leads to no call.
C3_OneFacadeCall ==
    TookRequest =>
        IF TranslationOk
        THEN /\ log.facade = << C3_ExpectedCall(Translated.val.op) >>
             /\ Len(log.facade_ok) <= 1
             /\ (pc # "facade" => Len(log.facade_ok) = 1)
        ELSE log.facade = <<>> /\ log.facade_ok = <<>>

\* A ModelInfo request whose call failed and was answered: no retry was made.
C3_Witness ==
    /\ TookRequest
    /\ pc = "recv"
    /\ TranslationOk
    /\ Translated.val.op = "ModelInfo"
    /\ log.facade = << "show_model_info" >>
    /\ log.facade_ok = << FALSE >>
    /\ Len(log.replies) = 1

C4_Unreachable(r) ==
    IsErrorReply(r) /\ r.body.err.kind = "UnableToReachService"

\* C4: when the Facade call fails, the reply is an error reply of the
\* service-unreachable kind, no success reply is sent and the outbound
\* translation is not invoked.
C4_FacadeFailureReply ==
    (TookRequest /\ log.facade_ok = << FALSE >>) =>
        /\ log.process_ollama_response = <<>>
        /\ log.telemetry = <<>>
        /\ (pc = "send" => IsSome(reply) /\ C4_Unreachable(Unwrap(reply)))
        /\ (pc # "send" => Len(log.replies) = 1)
        /\ \A i \in 1..Len(log.replies) : C4_Unreachable(log.replies[i].reply)

\* ModelInfo("llama3") against a failing backend: the error reply was delivered.
C4_Witness ==
    /\ TookRequest
    /\ TranslationOk
    /\ Translated.val = OllamaRequest("ModelInfo", "llama3")
    /\ log.facade_ok = << FALSE >>
    /\ Len(log.replies) = 1
    /\ log.replies[1].delivered
    /\ log.replies[1].reply.body.err.kind = "UnableToReachService"

\* C5: when the inbound translation fails, no Facade call and no outbound
\* translation is made, one error reply is sent, and the loop is back at
\* awaiting the next envelope.
C5_TranslationFailure ==
    (TookRequest /\ TranslationFailed /\ pc # "send") =>
        /\ log.facade = <<>>
        /\ log.process_ollama_response = <<>>
        /\ Len(log.replies) = 1
        /\ IsErrorReply(log.replies[1].reply)
        /\ pc = "recv"

\* C6: the mapping of errors to faults sends a backend error to the
\* service-unreachable fault, a header error to the protocol fault, and every
\* other error to a fault of a third kind, with the detail kept.
C6_StructuralMapping ==
    (IsSome(reply) /\ IsSome(log.fault)) =>
        LET e == Unwrap(log.fault)
            f == Unwrap(reply).body.err
        IN /\ f.detail = e.detail
           /\ (e.kind = "Ollama" => f.kind = "UnableToReachService")
           /\ (e.kind = "InvalidHeaderValue" => f.kind = "ProtocolError")
           /\ (e.kind = "Other" =>
                   f.kind \notin {"UnableToReachService", "ProtocolError"})

\* The names of the pulls made so far, in order.
PulledNames == [i \in 1..Len(pulled) |-> pulled[i].model]

\* A required model that the listing taken at startup lacks.
AbsentAtStart(model) == model \notin local_models

\* The entries of the required-model list that the listing lacks, in order.
AbsentEntries == SelectSeq(settings.models, AbsentAtStart)

Occurrences(seq, x) == Cardinality({ i \in 1..Len(seq) : seq[i] = x })

IsPrefix(a, b) == Len(a) <= Len(b) /\ a = SubSeq(b, 1, Len(a))

\* Provisioning ran to its end: the code has gone on to A::new.
ProvisioningCompleted == adaptor.constructed + adaptor.failed > 0

\* C7 as stated: once provisioning has completed, one list call was made and
\* each required name absent from the listing was pulled exactly once, each
\* other name never, also when the list repeats a name.
C7_OnePullPerAbsentName ==
    ProvisioningCompleted =>
        /\ Len(listed) = 1
        /\ \A n \in ModelNames :
             Occurrences(PulledNames, n) =
                 IF Occurrences(settings.models, n) > 0 /\ AbsentAtStart(n)
                 THEN 1 ELSE 0

\* C7, amended: one list call is made, and the pulls are, in order, the entries
\* of the required-model list whose name the initial listing lacks, one pull
\* per entry (a name listed k times and absent is pulled k times; a present
\* name is never pulled; an empty or fully present list gives no pull).
C7_OnePullPerAbsentEntry ==
    /\ Len(listed) <= 1
    /\ IsPrefix(PulledNames, AbsentEntries)
    /\ \A i \in 1..Len(pulled) : pulled[i].allow_insecure = settings.allow_insecure
    /\ ProvisioningCompleted =>
         /\ Len(listed) = 1
         /\ PulledNames = AbsentEntries
         /\ \A n \in ModelNames :
              Occurrences(PulledNames, n) =
                  IF AbsentAtStart(n) THEN Occurrences(settings.models, n) ELSE 0

\* A list that names an absent model twice, and a present one: two pulls.
C7_Witness ==
    /\ ProvisioningCompleted
    /\ settings.models = << "llama3", "llama3" >>
    /\ local_models = { "mistral" }
    /\ PulledNames = << "llama3", "llama3" >>

StartupPcs == {"get_ollama", "list_local_models", "provision"}

\* C8: the processor registers (add_proc, then add_service_proc) and takes its
\* first envelope only after the list call and every required pull have
\* succeeded; during provisioning no envelope is taken and no reply is sent.
C8_ProvisionBeforeServing ==
    /\ (pc \in StartupPcs =>
            /\ ~proc.added
            /\ proc.services = <<>>
            /\ msg = NoneOpt
            /\ reply = NoneOpt
            /\ log = EmptyLog)
    /\ ((proc.added \/ IsSome(msg)) =>
            /\ listed = << TRUE >>
            /\ PulledNames = AbsentEntries
            /\ \A i \in 1..Len(pulled) : pulled[i].ok
            /\ \A i \in 1..Len(settings.models) : settings.models[i] \in inventory)
    /\ (proc.services # <<>> => proc.added)
    /\ (IsSome(msg) => proc.services = settings.services)

\* An envelope that waited in the queue during two pulls, taken after them.
C8_Witness ==
    /\ IsSome(msg)
    /\ Len(pulled) = 2
    /\ proc.added
    /\ undelivered = 0

StartupCallFailed ==
    \/ \E i \in 1..Len(listed) : ~listed[i]
    \/ \E i \in 1..Len(pulled) : ~pulled[i].ok

\* C9: when the list call or a pull fails, internal_run returns the error at
\* that first failure: no later pull, no adaptor, no registration, no envelope
\* taken.
C9_StartupFailureAborts ==
    StartupCallFailed =>
        /\ pc = "returned"
        /\ ret = "Ollama"
        /\ (listed # << TRUE >> => pulled = <<>>)
        /\ \A i \in 1..(Len(pulled) - 1) : pulled[i].ok
        /\ adaptor.constructed + adaptor.failed = 0
        /\ ~proc.added
        /\ proc.services = <<>>
        /\ msg = NoneOpt
        /\ log = EmptyLog

\* The second of two pulls failed while an envelope was waiting in the queue.
C9_Witness ==
    /\ Len(pulled) = 2
    /\ pulled[1].ok
    /\ ~pulled[2].ok
    /\ queue # <<>>
    /\ pc = "returned"

\* C10: A::new is called once per run, after provisioning and before
\* registration; the adaptor it built serves every request until the loop
\* returns; when it fails, internal_run returns the error before registering
\* and before taking an envelope.
C10_OneAdaptor ==
    /\ adaptor.constructed + adaptor.failed <= 1
    /\ (ProvisioningCompleted =>
            /\ listed = << TRUE >>
            /\ PulledNames = AbsentEntries
            /\ \A i \in 1..Len(pulled) : pulled[i].ok)
    /\ ((proc.added \/ IsSome(msg) \/ pc \in {"add_proc", "add_service_proc",
                                              "recv", "facade", "send"}) =>
            adaptor.constructed = 1 /\ adaptor.failed = 0)
    /\ (TookRequest => adaptor.terminated = 0)
    /\ (adaptor.failed = 1 =>
            /\ pc = "returned"
            /\ ret \in OllamaErrorKinds
            /\ ~proc.added
            /\ proc.services = <<>>
            /\ msg = NoneOpt)

\* Every envelope of the run was taken, the last a Request served by the one
\* adaptor.
C10_Witness ==
    /\ TookRequest
    /\ TranslationOk
    /\ pc = "recv"
    /\ undelivered = 0
    /\ queue = <<>>
    /\ adaptor.constructed = 1

\* The envelope taken last is a Shutdown.
TookShutdown == IsSome(msg) /\ Unwrap(msg).kind = "Shutdown"

\* C11: once a Shutdown envelope is taken, nothing more is dispatched (no
\* translation, Facade call or reply), adaptor.terminate() is invoked exactly
\* once and before remove_proc, remove_proc is invoked before internal_run
\* returns, and terminate() is never invoked without a Shutdown.
C11_ShutdownStopsDispatch ==
    /\ (TookShutdown =>
            /\ pc \in {"remove_proc", "returned"}
            /\ log = EmptyLog
            /\ request = NoneOpt
            /\ reply = NoneOpt
            /\ adaptor.terminated = 1)
    /\ (adaptor.terminated > 0 => TookShutdown)
    /\ proc.remove_calls <= adaptor.terminated
    /\ (pc = "remove_proc" => TookShutdown /\ proc.remove_calls = 0)
    /\ (proc.remove_calls > 0 => TookShutdown /\ pc = "returned")
    /\ ((TookShutdown /\ pc = "returned") =>
            /\ proc.remove_calls = 1
            /\ (ret = "Ok" <=> proc.removed)
            /\ ret \in {"Ok", "Bus"})

\* Shutdown taken and answered by a clean return, with an envelope still queued
\* behind it that was never dispatched.
C11_Witness ==
    /\ TookShutdown
    /\ pc = "returned"
    /\ ret = "Ok"
    /\ proc.removed
    /\ adaptor.terminated = 1
    /\ queue # <<>>

\* A step that takes an envelope from the queue (the bus only appends).
Dequeues == Len(queue') < Len(queue)

\* The Request taken last, if it was handled at all, has had its reply sent.
LastRequestAnswered ==
    (TookRequest /\ log.process_request # <<>>) =>
        Len(log.replies) = 1 /\ log.replies[1].delivered

\* C12: at most one envelope is in flight: a Facade call or a reply send
\* belongs to the one Request taken last, and the next envelope is taken from
\* the queue only when no call is outstanding and that Request's reply has
\* been sent.
C12_OneInFlight ==
    /\ [](/\ (pc \in {"facade", "send"} =>
                  TookRequest /\ Len(log.process_request) = 1)
          /\ (IsSome(request) <=> pc = "facade")
          /\ (IsSome(reply) <=> pc = "send")
          /\ Len(log.facade) <= 1
          /\ Len(log.replies) <= 1)
    /\ [][Dequeues =>
            /\ pc = "recv"
            /\ request = NoneOpt
            /\ reply = NoneOpt
            /\ LastRequestAnswered]_vars

\* A second Request waits in the queue while the Facade call of the first is
\* outstanding.
C12_Witness ==
    /\ pc = "facade"
    /\ TookRequest
    /\ queue # <<>>
    /\ Head(queue).kind = "Request"
    /\ Head(queue).data # None

\* The step in which the Shutdown arm starts the teardown.
TeardownStarts == adaptor.terminated' > adaptor.terminated

\* C13: a Shutdown is acted upon only when no Facade call is outstanding and
\* no reply is being sent, and every Request taken before it, here the one
\* taken last, has had its reply sent by then.
C13_ShutdownAfterReplies ==
    [][TeardownStarts =>
          /\ pc = "recv"
          /\ request = NoneOpt
          /\ reply = NoneOpt
          /\ (TookRequest => Len(log.replies) = 1 /\ log.replies[1].delivered)]_vars

\* The envelope taken last is one the processor does not serve.
TookUnserved ==
    IsSome(msg) /\ Unwrap(msg).kind \in {"Command", "Config", "Response", "Error"}

\* C14: taking a Command, Config, Response or Error envelope ends the loop in
\* a panic: nothing is returned, no reply is sent, no Facade call is made, no
\* teardown is run and no step follows, so no later envelope is dispatched;
\* nothing else makes the loop panic.
C14_UnservedKindsPanic ==
    /\ [](/\ TookUnserved =>
               /\ pc = "panicked"
               /\ ret = None
               /\ log = EmptyLog
               /\ request = NoneOpt
               /\ reply = NoneOpt
               /\ adaptor.terminated = 0
               /\ proc.remove_calls = 0
          /\ pc = "panicked" => TookUnserved)
    /\ [][pc # "panicked"]_vars

\* A Command has been taken and the envelope behind it stays in the queue.
C14_Witness ==
    /\ pc = "panicked"
    /\ Unwrap(msg).kind = "Command"
    /\ queue # <<>>
    /\ Head(queue).kind = "Request"

\* The Facade call made for the envelope taken last was a generate call that
\* succeeded, and `Generated` is the response it returned.
GenerateSucceeded ==
    /\ log.facade = << "generate" >>
    /\ log.facade_ok = << TRUE >>
Generated == log.facade_result[1].val.value

\* The positions of the records made on an instrument with a tag `type`.
RecordsOf(instrument, type) ==
    { i \in 1..Len(log.telemetry) :
        /\ log.telemetry[i].instrument = instrument
        /\ log.telemetry[i].type = type }

\* A present field has exactly one record, tagged with the model of the
\* response, whose value is the field divided by `divisor` (integer
\* division); an absent field has none.
RecordedOnce(field, instrument, type, divisor) ==
    IF IsSome(field)
    THEN /\ Cardinality(RecordsOf(instrument, type)) = 1
         /\ \A i \in RecordsOf(instrument, type) :
              /\ log.telemetry[i].model = Generated.model
              /\ log.telemetry[i].value = Unwrap(field) \div divisor
    ELSE RecordsOf(instrument, type) = {}

PresentFields(r) ==
    Len(r.prompt_eval_count) + Len(r.eval_count) + Len(r.total_duration)
    + Len(r.load_duration) + Len(r.prompt_eval_duration) + Len(r.eval_duration)

\* C15: after a successful generate call each present statistic of the
\* response has exactly one record: the two token counts on their counters
\* with type gen, the four durations on the histogram with their own type and
\* divided by 1,000,000, all tagged with the response's model; absent
\* statistics have no record and there are no other records.
C15_GenerateTelemetry ==
    GenerateSucceeded =>
        /\ RecordedOnce(Generated.prompt_eval_count, "prompt_token_count", "gen", 1)
        /\ RecordedOnce(Generated.eval_count, "gen_token_count", "gen", 1)
        /\ RecordedOnce(Generated.total_duration, "token_histogram", "total", 1000000)
        /\ RecordedOnce(Generated.load_duration, "token_histogram", "load", 1000000)
        /\ RecordedOnce(Generated.prompt_eval_duration, "token_histogram", "prompt",
                        1000000)
        /\ RecordedOnce(Generated.eval_duration, "token_histogram", "eval", 1000000)
        /\ Len(log.telemetry) = PresentFields(Generated)

\* A response with the prompt count, the load duration and a prompt-eval
\* duration below one millisecond, and the other three statistics absent.
C15_Witness ==
    /\ GenerateSucceeded
    /\ Generated.prompt_eval_count = Some(12)
    /\ Generated.eval_count = NoneOpt
    /\ Generated.total_duration = NoneOpt
    /\ Generated.load_duration = Some(1000000)
    /\ Generated.prompt_eval_duration = Some(999999)
    /\ Generated.eval_duration = NoneOpt
    /\ Len(log.telemetry) = 3
    /\ log.telemetry[3].value = 0

\* The positions of an event in what was done for the envelope taken last.
EventsAt(name) == { i \in 1..Len(log.events) : log.events[i] = name }

\* The reply for the envelope taken last, while it is being sent or once sent.
RepliesMade ==
    log.replies \o (IF IsSome(reply) THEN << [reply |-> Unwrap(reply)] >> ELSE <<>>)

\* C16: records are made only after the Facade call has returned successfully
\* and before the outbound translation and the send; a failed Facade call or
\* a failed inbound translation leaves no record; and with or without
\* records the reply is the one the outbound translation determines: the
\* success reply with its message, or an error reply when it failed.
C16_TelemetryOrder ==
    /\ Cardinality(EventsAt("record")) = Len(log.telemetry)
    /\ log.telemetry # <<>> =>
           /\ TookRequest
           /\ TranslationOk
           /\ log.facade_ok = << TRUE >>
    /\ \A i \in EventsAt("record") :
           /\ \E j \in EventsAt("return") : j < i
           /\ \A k \in EventsAt("process_ollama_response") \cup EventsAt("send") :
                i < k
    /\ (TranslationFailed \/ log.facade_ok = << FALSE >>) => log.telemetry = <<>>
    /\ log.outbound # <<>> =>
           /\ Len(log.outbound) = 1
           /\ Len(RepliesMade) = 1
           /\ IF log.outbound[1].ok
              THEN RepliesMade[1].reply = SuccessReply(log.outbound[1].val)
              ELSE IsErrorReply(RepliesMade[1].reply)

\* Statistics were recorded, the outbound translation then failed and the
\* error reply has been sent.
C16_Witness ==
    /\ Len(log.telemetry) > 1
    /\ log.outbound # <<>>
    /\ ~log.outbound[1].ok
    /\ Len(log.replies) = 1
    /\ IsErrorReply(log.replies[1].reply)

\* Inbound translation, the Facade call and outbound translation all
\* succeeded for the envelope taken last.
RoundTripSucceeded ==
    /\ TookRequest
    /\ TranslationOk
    /\ log.facade_ok = << TRUE >>
    /\ log.outbound # <<>>
    /\ log.outbound[1].ok

\* C17: when inbound translation, Facade call and outbound translation all
\* succeed, the operation came from this envelope's payload and service name,
\* the one Facade call was made for that operation and its argument, its
\* result was handed once and unchanged to the outbound translation, and the
\* success reply carries exactly the message built from that result.
C17_RoundTrip ==
    RoundTripSucceeded =>
        /\ Translated \in ProcessRequestResults(Unwrap(msg).service, Unwrap(msg).data)
        /\ log.facade = << C3_ExpectedCall(Translated.val.op) >>
        /\ Len(log.facade_result) = 1
        /\ log.facade_result[1] \in
               FacadeResults(log.facade[1], Translated.val.arg, inventory, generations)
        /\ log.process_ollama_response = << log.facade_result[1].val >>
        /\ log.outbound = << Ok([from |-> log.facade_result[1].val]) >>
        /\ Len(RepliesMade) = 1
        /\ RepliesMade[1].reply = SuccessReply([from |-> log.facade_result[1].val])
        /\ Translated.val.op = "GenerateEmbeddingsRequest" =>
               log.facade_result[1].val.value.input = Unwrap(msg).data
        /\ Translated.val.op = "ModelInfo" =>
               log.facade_result[1].val.value = Translated.val.arg

\* The reply to an embeddings request for payload m2 has been delivered, with
\* another envelope already waiting in the queue.
C17_Witness ==
    /\ RoundTripSucceeded
    /\ Unwrap(msg).data = "m2"
    /\ Translated.val.op = "GenerateEmbeddingsRequest"
    /\ Len(log.replies) = 1
    /\ log.replies[1].delivered
    /\ log.replies[1].reply.body.from.value.embeddings = 2
    /\ queue # <<>>

\* The six bits a character of the base64 alphabet stands for.
B64Value(c) ==
    IF c >= 65 /\ c <= 90 THEN c - 65
    ELSE IF c >= 97 /\ c <= 122 THEN c - 71
    ELSE IF c >= 48 /\ c <= 57 THEN c + 4
    ELSE IF c = 43 THEN 62 ELSE 63

\* The bytes a padded base64 text stands for.
RECURSIVE Base64Decode(_)
Base64Decode(chars) ==
    IF Len(chars) < 4 THEN <<>>
    ELSE LET a == B64Value(chars[1])
             b == B64Value(chars[2])
             c == B64Value(chars[3])
             d == B64Value(chars[4])
             first == a * 4 + (b \div 16)
             second == (b % 16) * 16 + (c \div 4)
             third == (c % 4) * 64 + d
         IN IF chars[3] = 61 THEN << first >>
            ELSE IF chars[4] = 61 THEN << first, second >>
            ELSE << first, second, third >> \o Base64Decode(SubSeq(chars, 5, Len(chars)))

\* get_ollama has returned a client with these headers.
ClientWith(headers) == ollama = Some([headers |-> headers])

\* C18: once get_ollama has run: without a password the client has no
\* Authorization header, whatever the username; with a password and an empty
\* username the header is "Bearer " followed by the password; with a password
\* and a username it is "Basic " followed by the base64 text of
\* username:password; and when the value is not a legal header value there is
\* no client and internal_run has returned the invalid-header error.
C18_AuthorizationHeader ==
    pc # "get_ollama" =>
        LET user == settings.url.username
            password == settings.url.password
        IN  /\ IF password = NoneOpt THEN ClientWith(NoneOpt)
               ELSE IF user = <<>> THEN
                   IF HeaderValueOk(StrBearer \o Unwrap(password))
                   THEN ClientWith(Some(StrBearer \o Unwrap(password)))
                   ELSE ollama = NoneOpt
               ELSE /\ IsSome(ollama)
                    /\ IsSome(Unwrap(ollama).headers)
                    /\ LET value == Unwrap(Unwrap(ollama).headers) IN
                       /\ Len(value) > Len(StrBasic)
                       /\ (Len(value) - Len(StrBasic)) % 4 = 0
                       /\ SubSeq(value, 1, Len(StrBasic)) = StrBasic
                       /\ Base64Decode(SubSeq(value, Len(StrBasic) + 1, Len(value)))
                              = user \o <<58>> \o Unwrap(password)
            /\ ollama = NoneOpt =>
                   /\ pc = "returned"
                   /\ ret = "InvalidHeaderValue"
                   /\ listed = <<>>
            /\ ollama = NoneOpt =>
                   /\ IsSome(password)
                   /\ user = <<>>
                   /\ ~HeaderValueOk(StrBearer \o Unwrap(password))

\* The URL carries "us" and "pw", and the client has "Basic dXM6cHc=".
C18_Witness ==
    /\ settings.url = Url(<<117, 115>>, Some(<<112, 119>>))
    /\ ClientWith(Some(<<66, 97, 115, 105, 99, 32,
                         100, 88, 77, 54, 99, 72, 99, 61>>))
    /\ listed # <<>>

\* The step takes a Service envelope from the queue.
TakesService == Dequeues /\ Head(queue).kind = "Service"

\* C19: a step that takes a Service envelope sets the routing table to the
\* table of the envelope and leaves the loop waiting for the next envelope,
\* with no adaptor call, no Facade call, no reply, no teardown and no change
\* to the registration or the client; no other step changes the routing table.
C19_ServiceTableFrame ==
    [][/\ service' # service => TakesService
       /\ TakesService =>
            /\ service' = Head(queue).data
            /\ pc = "recv" /\ pc' = "recv"
            /\ queue' = Tail(queue)
            /\ log' = EmptyLog
            /\ request' = NoneOpt /\ reply' = NoneOpt
            /\ UNCHANGED << ret, startup_vars, adaptor, proc, undelivered, closed >>
      ]_vars

\* The table t2 has replaced the table t1 of an earlier update, and the loop
\* waits with a Request in the queue.
C19_Witness ==
    /\ IsSome(msg)
    /\ Unwrap(msg) = Envelope("Service", "t2", None)
    /\ service = "t2"
    /\ pc = "recv"
    /\ queue # <<>>
    /\ Head(queue).kind = "Request"

\* The dispatch loop has been entered: the services were registered.
LoopEntered == proc.services # <<>>

\* The reply for the Request taken last could not be handed to the bus.
ReplySendFailed ==
    /\ TookRequest
    /\ Len(log.replies) = 1
    /\ ~log.replies[1].delivered

\* recv yields no envelope: every sender is gone and the queue is empty.
QueueEnded == pc = "recv" /\ closed /\ queue = <<>>

\* C20: once in the loop, internal_run has returned only after it took a
\* Shutdown (with the result of the deregistration), or with the bus error of
\* a reply that could not be sent; teardown and deregistration happen only
\* after a Shutdown was taken; and when the queue has ended the loop takes no
\* step at all: it neither returns nor tears down nor calls nor replies.
C20_ReturnsOnlyOnShutdown ==
    /\ []((pc = "returned" /\ LoopEntered) =>
             \/ /\ TookShutdown
                /\ proc.remove_calls = 1
                /\ ret = IF proc.removed THEN "Ok" ELSE "Bus"
             \/ /\ ReplySendFailed
                /\ ret = "Bus")
    /\ []((adaptor.terminated > 0 \/ proc.remove_calls > 0 \/ pc = "remove_proc")
              => TookShutdown)
    /\ [][~QueueEnded]_vars

\* The queue has ended after a Request was answered; no Shutdown was taken
\* and nothing has been torn down.
C20_Witness ==
    /\ QueueEnded
    /\ LoopEntered
    /\ TookRequest
    /\ Len(log.replies) = 1
    /\ adaptor.terminated = 0
    /\ proc.remove_calls = 0
    /\ ret = None

\* The variant of OllamaResponse that belongs to an operation.
C21_ExpectedVariant(op) ==
    CASE op = "ListLocalModels" -> "LocalModels"
      [] op = "ModelInfo" -> "ModelInfo"
      [] op = "GenerateRequest" -> "GenerateResponse"
      [] op = "GenerateEmbeddingsRequest" -> "GenerateEmbeddingsResponse"

\* C21: adaptor.process_ollama_response is called at most once for an
\* envelope, only for a Request whose inbound translation succeeded, and the
\* response it is given has the variant of that request's operation, never
\* ChatMessageResponse.
C21_ResponseVariant ==
    /\ Len(log.process_ollama_response) <= 1
    /\ Cardinality(EventsAt("process_ollama_response"))
           = Len(log.process_ollama_response)
    /\ log.process_ollama_response # <<>> =>
           /\ TookRequest
           /\ TranslationOk
           /\ log.process_ollama_response[1].variant
                  = C21_ExpectedVariant(Translated.val.op)
           /\ log.process_ollama_response[1].variant # "ChatMessageResponse"

\* The response of a generate call has been handed to the adaptor and the
\* reply has been sent.
C21_Witness ==
    /\ TookRequest
    /\ TranslationOk
    /\ Translated.val.op = "GenerateRequest"
    /\ Len(log.process_ollama_response) = 1
    /\ log.process_ollama_response[1].variant = "GenerateResponse"
    /\ Len(log.replies) = 1

====
